---- MODULE Spec2Model ----
(***************************************************************************)
(* The recurring-booking generator of                                      *)
(* supabase/functions/generate-repeated-bookings/index.ts as a state       *)
(* machine: one request is received, the while loop runs one iteration per *)
(* step (each iteration awaits one conflict query), the batch is filtered  *)
(* and submitted as one bulk insert, and one response is returned.         *)
(*                                                                         *)
(* A JavaScript Date at local midnight is a day number (days since         *)
(* 1970-01-01); a 'yyyy-MM-dd' string is a triple <<year, month, day>>.    *)
(* format and parseISO convert between the two by calendar arithmetic.     *)
(***************************************************************************)
EXTENDS Integers, Sequences, FiniteSets, TLC

(***************************************************************************)
(* Calendar arithmetic of the JavaScript Date object and of date-fns.      *)
(***************************************************************************)

Min(a, b) == IF a <= b THEN a ELSE b

\* Days since 1970-01-01 of the proleptic Gregorian date y-m-d (y >= 1).
DayOfCivil(y, m, d) ==
    LET yy  == IF m <= 2 THEN y - 1 ELSE y
        era == yy \div 400
        yoe == yy - era * 400
        mp  == IF m > 2 THEN m - 3 ELSE m + 9
        doy == (153 * mp + 2) \div 5 + d - 1
        doe == yoe * 365 + yoe \div 4 - yoe \div 100 + doy
    IN  era * 146097 + doe - 719468

\* The inverse: the <<year, month, day>> of a day number.
CivilOfDay(z) ==
    LET zz  == z + 719468
        era == zz \div 146097
        doe == zz - era * 146097
        yoe == (doe - doe \div 1460 + doe \div 36524 - doe \div 146096) \div 365
        doy == doe - (365 * yoe + yoe \div 4 - yoe \div 100)
        mp  == (5 * doy + 2) \div 153
        d   == doy - (153 * mp + 2) \div 5 + 1
        m   == IF mp < 10 THEN mp + 3 ELSE mp - 9
        y   == yoe + era * 400
    IN  << IF m <= 2 THEN y + 1 ELSE y, m, d >>

\* The years the model can reach: from 2023 to the end of the 1460 months
\* that follow the latest template. The calendar of those years is computed
\* once.
CalendarYears == 2023..2146

MonthStart == [ y \in CalendarYears, m \in 1..12 |-> DayOfCivil(y, m, 1) ]

Calendar == [ z \in DayOfCivil(2023, 1, 1)..DayOfCivil(2146, 12, 31) |-> CivilOfDay(z) ]

DaysFromCivil(y, m, d) == MonthStart[y, m] + d - 1

CivilFromDays(z) == Calendar[z]

\* parseISO('yyyy-MM-dd'): the Date at local midnight of that day.
parseISO(s) == DaysFromCivil(s[1], s[2], s[3])

\* format(date, 'yyyy-MM-dd').
format(date) == CivilFromDays(date)

\* Date.prototype.getFullYear, getMonth (0-based) and date-fns getDate.
getFullYear(date) == CivilFromDays(date)[1]
getMonth(date) == CivilFromDays(date)[2] - 1
getDate(date) == CivilFromDays(date)[3]

\* date-fns getDay: Sunday 0, ..., Friday 5, Saturday 6 (1970-01-01 was a Thursday).
getDay(date) == (date + 4) % 7

\* new Date(year, monthIndex, day): the month index and the day overflow into
\* the neighbouring months and years (day 0 is the last day of the month before).
NewDate(year, monthIndex, day) ==
    DaysFromCivil(year + monthIndex \div 12, (monthIndex % 12) + 1, 1) + day - 1

\* date-fns isBefore(date, dateToCompare).
isBefore(date, dateToCompare) == date < dateToCompare

\* date-fns addDays and addWeeks.
addDays(date, amount) == date + amount
addWeeks(date, amount) == addDays(date, amount * 7)

\* date-fns addMonths: the same day of the month `amount` months later, or the
\* last day of that month when it is shorter.
addMonths(date, amount) ==
    LET dayOfMonth        == getDate(date)
        endOfDesiredMonth == NewDate(getFullYear(date), getMonth(date) + amount + 1, 0)
        daysInMonth       == getDate(endOfDesiredMonth)
    IN  IF dayOfMonth >= daysInMonth
        THEN endOfDesiredMonth
        ELSE NewDate(getFullYear(endOfDesiredMonth), getMonth(endOfDesiredMonth), dayOfMonth)


\* date-fns startOfMonth.
startOfMonth(date) == NewDate(getFullYear(date), getMonth(date), 1)

\* getWeekOfMonth with weeks that start on Monday.
getWeekOfMonth_MondayStart(date) ==
    LET currentDayOfMonth == getDate(date)
        startWeekDay      == getDay(startOfMonth(date))
        lastDayOfFirstWeek ==
            IF 1 - startWeekDay <= 0 THEN 1 - startWeekDay + 7 ELSE 1 - startWeekDay
        remainingDaysAfterFirstWeek == currentDayOfMonth - lastDayOfFirstWeek
    IN  IF remainingDaysAfterFirstWeek <= 0
        THEN 1
        ELSE ((remainingDaysAfterFirstWeek + 6) \div 7) + 1

\* date-fns getWeekOfMonth under the default weekStartsOn = 0 (Sunday): one
\* more than the number of weeks, rounded up, from the last day of the
\* month's first week to the date.
getWeekOfMonth(date) ==
    LET currentDayOfMonth == getDate(date)
        startWeekDay      == getDay(startOfMonth(date))
        lastDayOfFirstWeek ==
            IF 0 - startWeekDay <= 0 THEN 0 - startWeekDay + 7 ELSE 0 - startWeekDay
        remainingDaysAfterFirstWeek == currentDayOfMonth - lastDayOfFirstWeek
    IN  IF remainingDaysAfterFirstWeek <= 0
        THEN 1
        ELSE ((remainingDaysAfterFirstWeek + 6) \div 7) + 1

(***************************************************************************)
(* The exclusion calendar, as the loop body computes it for one date.      *)
(***************************************************************************)

\* The number of Saturdays among the days 1..upTo of the month of currentDate
\* (the two counting loops of the handler).
CountSaturdays(currentDate, upTo) ==
    Cardinality({ d \in 1..upTo :
        getDay(NewDate(getFullYear(currentDate), getMonth(currentDate), d)) = 6 })

\* CalendarAllows with the 4th Saturday skipped only in months of five Saturdays.
CalendarAllows_FourthKept(repeatType, currentDate) ==
    IF repeatType = "daily"
    THEN LET dayOfWeek == getDay(currentDate)
         IN  IF dayOfWeek = 5
             THEN FALSE
             ELSE IF dayOfWeek = 6
             THEN LET saturdayCount == CountSaturdays(currentDate, getDate(currentDate))
                  IN  IF saturdayCount = 1 \/ saturdayCount = 3
                      THEN FALSE
                      ELSE IF saturdayCount = 4
                      THEN LET lastDayOfMonth ==
                                   NewDate(getFullYear(currentDate), getMonth(currentDate) + 1, 0)
                               totalSaturdaysInMonth ==
                                   CountSaturdays(currentDate, getDate(lastDayOfMonth))
                           IN  ~(totalSaturdaysInMonth > 4)
                      ELSE TRUE
             ELSE TRUE
    ELSE TRUE

\* CalendarAllows with the rule applied whatever the repeat type.
CalendarAllows_AllTypes(repeatType, currentDate) ==
    LET dayOfWeek == getDay(currentDate)
    IN  IF dayOfWeek = 5
        THEN FALSE
        ELSE IF dayOfWeek = 6
        THEN CountSaturdays(currentDate, getDate(currentDate)) \notin {1, 3, 4}
        ELSE TRUE

\* CalendarAllows with every Saturday from the 3rd on skipped.
CalendarAllows_FromThirdOn(repeatType, currentDate) ==
    IF repeatType = "daily"
    THEN LET dayOfWeek == getDay(currentDate)
         IN  IF dayOfWeek = 5
             THEN FALSE
             ELSE IF dayOfWeek = 6
             THEN LET saturdayCount == CountSaturdays(currentDate, getDate(currentDate))
                  IN  ~(saturdayCount = 1 \/ saturdayCount >= 3)
             ELSE TRUE
    ELSE TRUE

\* shouldBook after the calendar rule: FALSE when the date is to be skipped.
CalendarAllows(repeatType, currentDate) ==
    IF repeatType = "daily"
    THEN LET dayOfWeek == getDay(currentDate)
         IN  IF dayOfWeek = 5
             THEN FALSE
             ELSE IF dayOfWeek = 6
             THEN LET saturdayCount == CountSaturdays(currentDate, getDate(currentDate))
                  IN  IF saturdayCount = 1 \/ saturdayCount = 3
                      THEN FALSE
                      ELSE IF saturdayCount = 4
                      THEN LET lastDayOfMonth ==
                                   NewDate(getFullYear(currentDate), getMonth(currentDate) + 1, 0)
                               totalSaturdaysInMonth ==
                                   CountSaturdays(currentDate, getDate(lastDayOfMonth))
                           IN  ~(totalSaturdaysInMonth >= 4)
                      ELSE TRUE
             ELSE TRUE
    ELSE TRUE

\* The rule of the earlier versions of the function: shouldBook after the
\* Friday test and the week-of-month test of a Saturday.
WeekOfMonthRule(date) ==
    LET dayOfWeek == getDay(date)
    IN  IF dayOfWeek = 5
        THEN FALSE
        ELSE IF dayOfWeek = 6
        THEN LET weekOfMonth == getWeekOfMonth(date)
             IN  ~(weekOfMonth = 1 \/ weekOfMonth = 3 \/ weekOfMonth = 4)
        ELSE TRUE

(***************************************************************************)
(* The storage collaborator: the conflict query and the bulk insert.       *)
(***************************************************************************)

\* ConflictRows with closed intervals: touching bookings count as conflicts.
ConflictRows_Closed(rows, initialBooking, proposedBookingDate) ==
    { r \in rows :
        /\ r.room_id = initialBooking.room_id
        /\ r.date = proposedBookingDate
        /\ r.start_time <= initialBooking.end_time
        /\ r.end_time >= initialBooking.start_time
        /\ r.id # initialBooking.id }

\* ConflictRows without the room filter.
ConflictRows_AnyRoom(rows, initialBooking, proposedBookingDate) ==
    { r \in rows :
        /\ r.date = proposedBookingDate
        /\ r.start_time < initialBooking.end_time
        /\ r.end_time > initialBooking.start_time
        /\ r.id # initialBooking.id }

\* The rows the conflict query selects: same room, same date, start_time
\* before the template's end_time, end_time after the template's start_time,
\* and an id other than the template's.
ConflictRows(rows, initialBooking, proposedBookingDate) ==
    { r \in rows :
        /\ r.room_id = initialBooking.room_id
        /\ r.date = proposedBookingDate
        /\ r.start_time < initialBooking.end_time
        /\ r.end_time > initialBooking.start_time
        /\ r.id # initialBooking.id }

\* NewBooking that leaves the remarks behind.
NewBooking_NoRemarks(userId, initialBooking, proposedBookingDate) ==
    [ user_id    |-> userId,
      room_id    |-> initialBooking.room_id,
      title      |-> initialBooking.title,
      date       |-> proposedBookingDate,
      start_time |-> initialBooking.start_time,
      end_time   |-> initialBooking.end_time,
      remarks    |-> "" ]

\* The row pushed on bookingsToInsert for one date.
NewBooking(userId, initialBooking, proposedBookingDate) ==
    [ user_id    |-> userId,
      room_id    |-> initialBooking.room_id,
      title      |-> initialBooking.title,
      date       |-> proposedBookingDate,
      start_time |-> initialBooking.start_time,
      end_time   |-> initialBooking.end_time,
      remarks    |-> initialBooking.remarks ]

\* The rows one successful bulk insert adds: the rows of the batch, each under
\* a fresh id above every id of the store.
Persisted(rows, batch) ==
    LET maxId == CHOOSE m \in { r.id : r \in rows } : \A r \in rows : r.id <= m
    IN  { [ id         |-> maxId + i,
            user_id    |-> batch[i].user_id,
            room_id    |-> batch[i].room_id,
            title      |-> batch[i].title,
            date       |-> batch[i].date,
            start_time |-> batch[i].start_time,
            end_time   |-> batch[i].end_time,
            remarks    |-> batch[i].remarks ] : i \in 1..Len(batch) }

\* StoreAfterInsert as an upsert on room and date: a stored row of the room
\* and date of a row of the batch is replaced.
StoreAfterInsert_Upsert(rows, batch) ==
    { r \in rows : \A i \in 1..Len(batch) :
                      ~(r.room_id = batch[i].room_id /\ r.date = batch[i].date) }
        \cup Persisted(rows, batch)

\* The bookings table after a successful bulk insert: insert adds rows and
\* touches no stored row.
StoreAfterInsert(rows, batch) == rows \cup Persisted(rows, batch)

(***************************************************************************)
(* The pure steps of the handler.                                          *)
(***************************************************************************)

MAX_ITERATIONS == 365 * 2

\* endDate: the parsed rawEndDate, or null (the empty sequence) without one.
ParseEndDate(rawEndDate) ==
    IF Len(rawEndDate) = 0 THEN << >> ELSE << parseISO(rawEndDate[1]) >>

\* LoopContinues without the iteration cap.
LoopContinues_NoCap(count, endDate, date) ==
    IF Len(endDate) = 0 THEN TRUE ELSE ~isBefore(endDate[1], date)

\* LoopContinues that stops before the end date instead of after it.
LoopContinues_EndExclusive(count, endDate, date) ==
    /\ count < MAX_ITERATIONS
    /\ (IF Len(endDate) = 0 THEN TRUE ELSE isBefore(date, endDate[1]))

\* LoopContinues that looks at the iteration cap alone.
LoopContinues_EndIgnored(count, endDate, date) == count < MAX_ITERATIONS

\* The while condition.
LoopContinues(count, endDate, date) ==
    /\ count < MAX_ITERATIONS
    /\ (IF Len(endDate) = 0 THEN TRUE ELSE ~isBefore(endDate[1], date))

KnownRepeatTypes == {"daily", "custom", "weekly", "monthly"}

\* MonthlyStep without the clamp from the template's day: addMonths alone.
MonthlyStep_Drift(initialBooking, currentDate) == addMonths(currentDate, 1)

\* The monthly step: one month on, the day of the month taken from the
\* template's date and clamped to the length of the target month.
MonthlyStep(initialBooking, currentDate) ==
    LET originalDay        == getDate(parseISO(initialBooking.date))
        nextMonth          == addMonths(currentDate, 1)
        lastDayOfNextMonth ==
            getDate(NewDate(getFullYear(nextMonth), getMonth(nextMonth) + 1, 0))
        targetDay          == Min(originalDay, lastDayOfNextMonth)
    IN  NewDate(getFullYear(nextMonth), getMonth(nextMonth), targetDay)

\* NextDate with the weekly series stepping every other week.
NextDate_EveryOtherWeek(repeatType, initialBooking, currentDate) ==
    IF repeatType = "daily" \/ repeatType = "custom"
    THEN addDays(currentDate, 1)
    ELSE IF repeatType = "weekly"
    THEN addWeeks(currentDate, 2)
    ELSE MonthlyStep(initialBooking, currentDate)

\* NextDate with a custom series that does not step.
NextDate_CustomStays(repeatType, initialBooking, currentDate) ==
    IF repeatType = "daily"
    THEN addDays(currentDate, 1)
    ELSE IF repeatType = "custom"
    THEN currentDate
    ELSE IF repeatType = "weekly"
    THEN addWeeks(currentDate, 1)
    ELSE MonthlyStep(initialBooking, currentDate)

\* "Move to the next date based on repeat type".
NextDate(repeatType, initialBooking, currentDate) ==
    IF repeatType = "daily" \/ repeatType = "custom"
    THEN addDays(currentDate, 1)
    ELSE IF repeatType = "weekly"
    THEN addWeeks(currentDate, 1)
    ELSE MonthlyStep(initialBooking, currentDate)

\* FilterInitial that filters nothing.
FilterInitial_Keep(batch, initialBooking) == batch

\* The filter that drops the template's own occurrence from the batch.
FilterInitial(batch, initialBooking) ==
    LET firstBookingDateFormatted == format(parseISO(initialBooking.date))
    IN  SelectSeq(batch, LAMBDA b :
            ~(/\ b.date = firstBookingDateFormatted
              /\ b.start_time = initialBooking.start_time
              /\ b.end_time = initialBooking.end_time))

\* ReportedCount that counts the batch before the template's occurrence is dropped.
ReportedCount_Unfiltered(batch, filtered) == Len(batch)

\* The count reported in the success response.
ReportedCount(batch, filtered) == Len(filtered)


(***************************************************************************)
(* Bounds of the model and the inputs drawn from them.                     *)
(***************************************************************************)

\* End dates reach up to MaxSteps steps of the repeat type past the template.
MaxSteps == 3
\* The stored bookings other than the template's own number at most MaxExisting.
MaxExisting == 1
\* A single failing conflict query is the query of iteration 0..MaxFailAt.
MaxFailAt == 2

TemplateDates == { <<2024, 1, 1>>, <<2024, 1, 31>>, <<2024, 3, 1>>, <<2024, 3, 7>> }
LongRunDates == { <<2024, 1, 31>>, <<2023, 8, 30>> }

RepeatTypes == KnownRepeatTypes \cup {"none"}

\* The template booking the caller has persisted under id 1.
Template(date) ==
    [ id |-> 1, room_id |-> "R1", title |-> "standup", date |-> date,
      start_time |-> 1, end_time |-> 2, remarks |-> "weekly sync" ]

TemplateRow(date) ==
    [ id |-> 1, user_id |-> "u1", room_id |-> "R1", title |-> "standup", date |-> date,
      start_time |-> 1, end_time |-> 2, remarks |-> "weekly sync" ]

\* The length in days of one step of a repeat type (a month: its shortest).
StepDays(repeatType) ==
    IF repeatType = "weekly" THEN 7 ELSE IF repeatType = "monthly" THEN 28 ELSE 1

\* End dates around each of the first MaxSteps steps, and one far beyond the
\* iteration cap of a weekly series.
EndDates(date, repeatType) ==
    { << format(parseISO(date) + n * StepDays(repeatType) + j) >> :
        n \in 0..MaxSteps, j \in {-1, 0, 4} }

FarEndDate(date) == << format(parseISO(date) + 7 * (MAX_ITERATIONS + 1)) >>

\* Other bookings of the store: in either room, on the template's date or one
\* or two steps later, just before, just after, across or at the template's time.
ExistingRows(date, repeatType) ==
    { [ id |-> 2 + 10 * n + 3 * iv[1] + iv[2] + (IF room = "R1" THEN 0 ELSE 100),
        user_id |-> "u2", room_id |-> room, title |-> "other",
        date |-> format(parseISO(date) + n * StepDays(repeatType)),
        start_time |-> iv[1], end_time |-> iv[2], remarks |-> "" ] :
        room \in {"R1", "R2"}, n \in 0..2,
        iv \in { <<0, 1>>, <<2, 3>>, <<0, 2>>, <<1, 2>> } }

\* The bookings among them that overlap the template's room and time.
OverlappingRows(date, repeatType) ==
    { r \in ExistingRows(date, repeatType) :
        r.room_id = "R1" /\ r.start_time = 0 /\ r.end_time = 2 }

\* A store in which room R1 is taken on each of the MAX_ITERATIONS days after
\* the template's.
OccupiedRows(date) ==
    { [ id |-> 200 + n, user_id |-> "u2", room_id |-> "R1", title |-> "other",
        date |-> format(parseISO(date) + n),
        start_time |-> 0, end_time |-> 3, remarks |-> "" ] : n \in 1..MAX_ITERATIONS }

\* The subsets of S of at most k elements.
RECURSIVE SubsetsUpTo(_, _)
SubsetsUpTo(S, k) ==
    IF k = 0
    THEN {{}}
    ELSE LET smaller == SubsetsUpTo(S, k - 1)
         IN  smaller \cup { p \cup {x} : p \in smaller, x \in S }

Request(date, repeatType, endDate) ==
    [ method |-> "POST", bodyIsJson |-> TRUE, initialBooking |-> << Template(date) >>,
      repeatType |-> repeatType, endDate |-> endDate, userId |-> "u1" ]

VARIABLES
    request,                  \* the request: method and the fields of its JSON body
    store,                    \* the rows of the bookings table
    storeAtStart,             \* the rows of the bookings table when the request arrived
    failing,                  \* the loop iterations whose conflict query returns an error
    throwing,                 \* the loop iterations whose conflict query throws
    thrown,                   \* the messages of the exceptions raised in the try block
    other,                    \* a second invocation running at the same time, if any
    pc,                       \* "recv", "loop", "insert" or "done"
    currentDate,              \* currentDate
    iterationCount,           \* iterationCount
    bookingsToInsert,         \* bookingsToInsert
    filteredBookingsToInsert, \* filteredBookingsToInsert
    log,                      \* the "Added booking" / "Skipped booking" lines
    queried,                  \* the dates of the conflict queries issued, in order
    insertCalls,              \* the bulk inserts issued: the batch and whether it failed
    responses                 \* the responses returned

vars == << pc, iterationCount, currentDate, responses, log, queried, bookingsToInsert,
           filteredBookingsToInsert, insertCalls, request, failing, throwing, other, thrown, store, storeAtStart >>

AllIterations == 0..(MAX_ITERATIONS - 1)

\* Requests with an end date and no failing query, over any stored bookings.
InitBounded ==
    \E date \in TemplateDates, repeatType \in RepeatTypes :
    \E endDate \in EndDates(date, repeatType), extra \in SubsetsUpTo(ExistingRows(date, repeatType), MaxExisting) :
        /\ request = Request(date, repeatType, endDate)
        /\ store = {TemplateRow(date)} \cup extra
        /\ failing = {}
        /\ throwing = {}

\* Requests with an end date where every conflict query fails or a single one
\* does, over stored bookings that overlap the template's time.
InitFailing ==
    \E date \in TemplateDates, repeatType \in RepeatTypes :
    \E endDate \in EndDates(date, repeatType), extra \in SubsetsUpTo(OverlappingRows(date, repeatType), MaxExisting) :
        /\ request = Request(date, repeatType, endDate)
        /\ store = {TemplateRow(date)} \cup extra
        /\ failing \in {AllIterations} \cup { {i} : i \in 0..MaxFailAt }
        /\ throwing = {}

\* Requests with no end date, or one beyond the cap, over a store that holds
\* the template alone: no query fails, every query fails, or one query throws.
InitLong ==
    \E date \in LongRunDates, repeatType \in RepeatTypes :
        /\ request \in { Request(date, repeatType, << >>),
                         Request(date, repeatType, FarEndDate(date)) }
        /\ store = {TemplateRow(date)}
        /\ \E calls \in { << {}, {} >>, << AllIterations, {} >>, << {}, {MaxFailAt} >> } :
              failing = calls[1] /\ throwing = calls[2]

\* A daily request with no end date over a store where room R1 is taken on
\* every day the loop can reach.
InitOccupied ==
    \E date \in {<<2023, 8, 30>>} :
        /\ request = Request(date, "daily", << >>)
        /\ store = {TemplateRow(date)} \cup OccupiedRows(date)
        /\ failing = {}
        /\ throwing = {}

\* Requests with an end date where the conflict query of one iteration throws.
InitThrowing ==
    \E date \in TemplateDates, repeatType \in RepeatTypes :
    \E endDate \in EndDates(date, repeatType) :
        /\ request = Request(date, repeatType, endDate)
        /\ store = {TemplateRow(date)}
        /\ failing = {}
        /\ throwing \in { {i} : i \in 0..MaxFailAt }

\* A date string that names no day of the calendar.
InvalidDates == { <<2024, 2, 30>>, <<2024, 13, 1>> }

\* Requests that miss a required field, requests whose body is not JSON or
\* whose template date is no date, and preflight requests of any body.
InitOther ==
    \E date \in TemplateDates, repeatType \in RepeatTypes, endDate \in {<< >>} :
        /\ request \in
             { [ Request(date, repeatType, endDate) EXCEPT !.initialBooking = << >> ],
               [ Request(date, repeatType, endDate) EXCEPT !.repeatType = "" ],
               [ Request(date, repeatType, endDate) EXCEPT !.userId = "" ],
               [ Request(date, repeatType, endDate) EXCEPT !.bodyIsJson = FALSE ],
               [ Request(date, repeatType, endDate) EXCEPT !.method = "OPTIONS" ],
               [ Request(date, repeatType, endDate) EXCEPT !.method = "OPTIONS",
                                                            !.bodyIsJson = FALSE ],
               [ Request(date, repeatType, endDate) EXCEPT !.method = "OPTIONS",
                                                            !.userId = "" ] }
             \cup { Request(invalid, repeatType, endDate) : invalid \in InvalidDates }
        /\ store = {TemplateRow(date)}
        /\ failing = {}
        /\ throwing = {}

\* The handler's own variables when a request arrives.
InitHandler ==
    /\ storeAtStart = store
    /\ pc = "recv"
    /\ currentDate = 0
    /\ iterationCount = 0
    /\ bookingsToInsert = << >>
    /\ filteredBookingsToInsert = << >>
    /\ log = << >>
    /\ queried = << >>
    /\ insertCalls = << >>
    /\ thrown = << >>
    /\ responses = << >>

\* No second invocation.
NoOther == [ pc |-> "absent" ]

Init ==
    /\ InitBounded \/ InitFailing \/ InitThrowing \/ InitLong \/ InitOccupied \/ InitOther
    /\ InitHandler
    /\ other = NoOther

\* The requests without an end date or with one beyond the cap, the incomplete
\* requests and the preflight requests alone.
InitUnbounded == (InitLong \/ InitOccupied \/ InitOther) /\ InitHandler /\ other = NoOther


(***************************************************************************)
(* The handler.                                                            *)
(***************************************************************************)

corsHeaders == {"Access-Control-Allow-Origin", "Access-Control-Allow-Headers"}

ErrorResponse(status, message) ==
    [ status |-> status, headers |-> corsHeaders \cup {"Content-Type"},
      body |-> [ error |-> message ] ]

SuccessResponse(count) ==
    [ status |-> 200, headers |-> corsHeaders \cup {"Content-Type"},
      body |-> [ message |-> "Repeated bookings generated successfully.", count |-> count ] ]

\* CaughtResponse without the status option: the Response defaults to 200.
CaughtResponse_NoStatus(message) ==
    [ status |-> 200, headers |-> corsHeaders \cup {"Content-Type"},
      body |-> [ error |-> message ] ]

\* The response of the catch block.
CaughtResponse(message) == ErrorResponse(500, message)

\* IsPreflight tested inside the try block, after the body has been read.
IsPreflight_AfterBody(req) == req.method = "OPTIONS" /\ req.bodyIsJson

\* The test that precedes the try block.
IsPreflight(req) == req.method = "OPTIONS"

\* MissingRequired without the test of userId.
MissingRequired_UserIdOptional(req) ==
    Len(req.initialBooking) = 0 \/ req.repeatType = ""

\* !initialBooking || !repeatType || !userId
MissingRequired(req) ==
    Len(req.initialBooking) = 0 \/ req.repeatType = "" \/ req.userId = ""

\* Whether parseISO yields a valid Date: the month is one of the twelve and
\* the day is a day of that month.
validateDate(s) ==
    LET isLeapYear == s[1] % 400 = 0 \/ (s[1] % 4 = 0 /\ s[1] % 100 # 0)
    IN  /\ s[2] \in 1..12
        /\ s[3] >= 1
        /\ s[3] <= (IF s[2] = 2 THEN (IF isLeapYear THEN 29 ELSE 28)
                    ELSE IF s[2] \in {4, 6, 9, 11} THEN 30 ELSE 31)

\* AfterLoop that calls the bulk insert also with an empty batch.
AfterLoop_AlwaysInsert(batch) ==
    /\ filteredBookingsToInsert' = FilterInitial(batch, request.initialBooking[1])
    /\ pc' = "insert"
    /\ responses' = responses

\* What follows the loop: the template's own occurrence is filtered out; a
\* batch that is not empty goes to the bulk insert, an empty one is answered
\* at once with count 0.
AfterLoop(batch) ==
    LET filtered == FilterInitial(batch, request.initialBooking[1])
    IN  /\ filteredBookingsToInsert' = filtered
        /\ IF Len(filtered) > 0
           THEN /\ pc' = "insert"
                /\ responses' = responses
           ELSE /\ pc' = "done"
                /\ responses' = Append(responses, SuccessResponse(ReportedCount(batch, filtered)))

\* The preflight request.
Options ==
    /\ pc = "recv"
    /\ IsPreflight(request)
    /\ responses' = Append(responses,
                       [ status |-> 200, headers |-> corsHeaders, body |-> [ f \in {} |-> f ] ])
    /\ pc' = "done"
    /\ UNCHANGED << request, store, storeAtStart, failing, throwing, other, thrown, currentDate, iterationCount, bookingsToInsert,
                    filteredBookingsToInsert, log, queried, insertCalls >>

\* A body that is not JSON: req.json() throws, the catch block answers.
BodyUnparsable ==
    /\ pc = "recv"
    /\ ~IsPreflight(request)
    /\ ~request.bodyIsJson
    /\ thrown' = Append(thrown, "Unexpected token")
    /\ responses' = Append(responses, CaughtResponse("Unexpected token"))
    /\ pc' = "done"
    /\ UNCHANGED << request, store, storeAtStart, failing, throwing, other, currentDate, iterationCount,
                    bookingsToInsert, filteredBookingsToInsert, log, queried, insertCalls >>

\* A body without initialBooking, repeatType or userId.
MissingParameters ==
    /\ pc = "recv"
    /\ ~IsPreflight(request)
    /\ request.bodyIsJson
    /\ MissingRequired(request)
    /\ responses' = Append(responses, ErrorResponse(400, "Missing required parameters."))
    /\ pc' = "done"
    /\ UNCHANGED << request, store, storeAtStart, failing, throwing, other, thrown, currentDate, iterationCount, bookingsToInsert,
                    filteredBookingsToInsert, log, queried, insertCalls >>

\* A complete body: the loop starts at the template's date.
Begin ==
    /\ pc = "recv"
    /\ ~IsPreflight(request)
    /\ request.bodyIsJson
    /\ ~MissingRequired(request)
    /\ validateDate(request.initialBooking[1].date)
    /\ currentDate' = parseISO(request.initialBooking[1].date)
    /\ iterationCount' = 0
    /\ bookingsToInsert' = << >>
    /\ pc' = "loop"
    /\ UNCHANGED << request, store, storeAtStart, failing, throwing, other, thrown, filteredBookingsToInsert, log, queried,
                    insertCalls, responses >>

\* A complete body whose template date is no date: parseISO yields an Invalid
\* Date, isBefore is false of it, so the loop is entered whatever the end
\* date, and format throws a RangeError in the first iteration.
InvalidDate ==
    /\ pc = "recv"
    /\ ~IsPreflight(request)
    /\ request.bodyIsJson
    /\ ~MissingRequired(request)
    /\ ~validateDate(request.initialBooking[1].date)
    /\ thrown' = Append(thrown, "Invalid time value")
    /\ responses' = Append(responses, CaughtResponse("Invalid time value"))
    /\ pc' = "done"
    /\ UNCHANGED << request, store, storeAtStart, failing, throwing, other, currentDate, iterationCount,
                    bookingsToInsert, filteredBookingsToInsert, log, queried, insertCalls >>

\* ShouldQuery that sends the query whatever the calendar said.
ShouldQuery_Always(shouldBook) == TRUE

\* The guard of the conflict query: shouldBook after the calendar rule.
ShouldQuery(shouldBook) == shouldBook

\* QueryAllows that books the date when the query has failed.
QueryAllows_ErrorIgnored(rows, failed, initialBooking, proposedBookingDate) ==
    IF failed
    THEN TRUE
    ELSE ConflictRows(rows, initialBooking, proposedBookingDate) = {}

\* The outcome of the conflict query of this iteration: shouldBook after it.
QueryAllows(rows, failed, initialBooking, proposedBookingDate) ==
    IF failed
    THEN FALSE
    ELSE ConflictRows(rows, initialBooking, proposedBookingDate) = {}

\* One iteration of the while loop.
Iterate ==
    /\ pc = "loop"
    /\ LoopContinues(iterationCount, ParseEndDate(request.endDate), currentDate)
    /\ ~(iterationCount \in throwing
          /\ ShouldQuery(CalendarAllows(request.repeatType, currentDate)))
    /\ \E initialBooking \in {request.initialBooking[1]}, repeatType \in {request.repeatType},
          proposedBookingDate \in {format(currentDate)} :
       \E calendarOk \in {CalendarAllows(repeatType, currentDate)} :
       \E shouldBook \in
             { calendarOk /\ QueryAllows(store, iterationCount \in failing, initialBooking,
                                         proposedBookingDate) } :
       \E batch \in
             { IF shouldBook
               THEN Append(bookingsToInsert,
                           NewBooking(request.userId, initialBooking, proposedBookingDate))
               ELSE bookingsToInsert } :
           /\ queried' = IF ShouldQuery(calendarOk)
                         THEN Append(queried, proposedBookingDate)
                         ELSE queried
           /\ bookingsToInsert' = batch
           /\ log' = Append(log, [ date |-> proposedBookingDate, added |-> shouldBook ])
           /\ IF repeatType \in KnownRepeatTypes
              THEN /\ currentDate' = NextDate(repeatType, initialBooking, currentDate)
                   /\ iterationCount' = iterationCount + 1
                   /\ UNCHANGED << pc, filteredBookingsToInsert, responses >>
              ELSE /\ AfterLoop(batch)
                   /\ UNCHANGED << currentDate, iterationCount >>
    /\ UNCHANGED << request, store, storeAtStart, failing, throwing, other, thrown, insertCalls >>

\* An iteration whose conflict query throws: the catch block answers.
QueryThrows ==
    /\ pc = "loop"
    /\ LoopContinues(iterationCount, ParseEndDate(request.endDate), currentDate)
    /\ iterationCount \in throwing
    /\ ShouldQuery(CalendarAllows(request.repeatType, currentDate))
    /\ queried' = Append(queried, format(currentDate))
    /\ thrown' = Append(thrown, "query threw")
    /\ responses' = Append(responses, CaughtResponse("query threw"))
    /\ pc' = "done"
    /\ UNCHANGED << request, store, storeAtStart, failing, throwing, other, currentDate, iterationCount,
                    bookingsToInsert, filteredBookingsToInsert, log, insertCalls >>

\* The while condition is false.
ExitLoop ==
    /\ pc = "loop"
    /\ ~LoopContinues(iterationCount, ParseEndDate(request.endDate), currentDate)
    /\ AfterLoop(bookingsToInsert)
    /\ UNCHANGED << request, store, storeAtStart, failing, throwing, other, thrown, currentDate, iterationCount, bookingsToInsert,
                    log, queried, insertCalls >>

\* InsertResponse that ignores insertError.
InsertResponse_ErrorIgnored(insertError, batch, filtered) ==
    SuccessResponse(ReportedCount(batch, filtered))

\* The response after the bulk insert has returned.
InsertResponse(insertError, batch, filtered) ==
    IF insertError
    THEN ErrorResponse(500, "insert failed")
    ELSE SuccessResponse(ReportedCount(batch, filtered))

\* The bulk insert persists every row of the batch, and the count is returned.
InsertSucceeds ==
    /\ pc = "insert"
    /\ insertCalls' = Append(insertCalls, [ rows |-> filteredBookingsToInsert, error |-> FALSE ])
    /\ store' = StoreAfterInsert(store, filteredBookingsToInsert)
    /\ responses' = Append(responses,
                       InsertResponse(FALSE, bookingsToInsert, filteredBookingsToInsert))
    /\ pc' = "done"
    /\ UNCHANGED << request, storeAtStart, failing, throwing, other, thrown, currentDate, iterationCount,
                    bookingsToInsert, filteredBookingsToInsert, log, queried >>

\* The bulk insert fails as a whole: nothing is persisted, the error is returned.
InsertFails ==
    /\ pc = "insert"
    /\ insertCalls' = Append(insertCalls, [ rows |-> filteredBookingsToInsert, error |-> TRUE ])
    /\ responses' = Append(responses,
                       InsertResponse(TRUE, bookingsToInsert, filteredBookingsToInsert))
    /\ pc' = "done"
    /\ UNCHANGED << request, store, storeAtStart, failing, throwing, other, thrown, currentDate, iterationCount,
                    bookingsToInsert, filteredBookingsToInsert, log, queried >>

\* The bulk insert throws: nothing is persisted, the catch block answers.
InsertThrows ==
    /\ pc = "insert"
    /\ insertCalls' = Append(insertCalls, [ rows |-> filteredBookingsToInsert, error |-> TRUE ])
    /\ thrown' = Append(thrown, "insert threw")
    /\ responses' = Append(responses, CaughtResponse("insert threw"))
    /\ pc' = "done"
    /\ UNCHANGED << request, store, storeAtStart, failing, throwing, other, currentDate, iterationCount,
                    bookingsToInsert, filteredBookingsToInsert, log, queried >>

Next ==
    \/ Options
    \/ BodyUnparsable
    \/ MissingParameters
    \/ InvalidDate
    \/ Begin
    \/ Iterate
    \/ QueryThrows
    \/ ExitLoop
    \/ InsertSucceeds
    \/ InsertFails
    \/ InsertThrows

Spec == Init /\ [][Next]_vars

\* The runtime runs the handler on, and every awaited collaborator call
\* returns (with rows or with an error): a step that can be taken is taken.
FairSpec == InitUnbounded /\ [][Next]_vars /\ WF_vars(Next)


(***************************************************************************)
(* Two invocations at once.  The runtime serves each request by its own    *)
(* run of the handler; the runs share nothing but the bookings table, and  *)
(* each await lets the other run on.  The second run is the same handler   *)
(* over its own request and locals, kept in the record other; its          *)
(* collaborator calls succeed.                                             *)
(***************************************************************************)

\* The template of the second request, persisted under id 2.
OtherTemplate(room, date, time) ==
    [ id |-> 2, room_id |-> room, title |-> "review", date |-> date,
      start_time |-> time[1], end_time |-> time[2], remarks |-> "" ]

OtherTemplateRow(room, date, time) ==
    [ id |-> 2, user_id |-> "u2", room_id |-> room, title |-> "review", date |-> date,
      start_time |-> time[1], end_time |-> time[2], remarks |-> "" ]

\* A weekly or daily series from Monday 2024-01-01 in room R1 from 1 to 2,
\* next to a daily or weekly series from Sunday 2024-01-07 in either room,
\* from 1 to 3 (across the first) or from 2 to 3 (touching it).
InitRace ==
    \E repeatType \in {"weekly", "daily"}, endDate \in {<<2024, 1, 8>>, <<2024, 1, 9>>},
       room \in {"R1", "R2"}, time \in {<<1, 3>>, <<2, 3>>},
       otherType \in {"daily", "weekly"}, otherEnd \in {<<2024, 1, 8>>, <<2024, 1, 14>>} :
        /\ request = Request(<<2024, 1, 1>>, repeatType, << endDate >>)
        /\ other = [ pc |-> "recv",
                     request |-> [ method |-> "POST", bodyIsJson |-> TRUE,
                                   initialBooking |->
                                       << OtherTemplate(room, <<2024, 1, 7>>, time) >>,
                                   repeatType |-> otherType, endDate |-> << otherEnd >>,
                                   userId |-> "u2" ],
                     currentDate |-> 0,
                     iterationCount |-> 0,
                     bookingsToInsert |-> << >>,
                     filteredBookingsToInsert |-> << >>,
                     responses |-> << >> ]
        /\ store = { TemplateRow(<<2024, 1, 1>>), OtherTemplateRow(room, <<2024, 1, 7>>, time) }
        /\ failing = {}
        /\ throwing = {}
        /\ InitHandler

\* The second run starts its loop at its template's date.
OtherBegin ==
    /\ other.pc = "recv"
    /\ ~IsPreflight(other.request)
    /\ other.request.bodyIsJson
    /\ ~MissingRequired(other.request)
    /\ validateDate(other.request.initialBooking[1].date)
    /\ other' = [ other EXCEPT !.pc = "loop",
                               !.currentDate = parseISO(other.request.initialBooking[1].date),
                               !.iterationCount = 0,
                               !.bookingsToInsert = << >> ]
    /\ UNCHANGED << request, store, storeAtStart, failing, throwing, thrown, pc, currentDate,
                    iterationCount, bookingsToInsert, filteredBookingsToInsert, log, queried,
                    insertCalls, responses >>

\* One iteration of the loop of the second run, whose repeat type is one the
\* step knows: its conflict query reads the bookings table as it is at this
\* moment.
OtherIterate ==
    /\ other.pc = "loop"
    /\ LoopContinues(other.iterationCount, ParseEndDate(other.request.endDate),
                     other.currentDate)
    /\ other.request.repeatType \in KnownRepeatTypes
    /\ \E initialBooking \in {other.request.initialBooking[1]},
          proposedBookingDate \in {format(other.currentDate)} :
       \E shouldBook \in
             { CalendarAllows(other.request.repeatType, other.currentDate)
                 /\ QueryAllows(store, FALSE, initialBooking, proposedBookingDate) } :
           other' = [ other EXCEPT
                        !.bookingsToInsert =
                            IF shouldBook
                            THEN Append(@, NewBooking(other.request.userId, initialBooking,
                                                      proposedBookingDate))
                            ELSE @,
                        !.currentDate =
                            NextDate(other.request.repeatType, initialBooking, @),
                        !.iterationCount = @ + 1 ]
    /\ UNCHANGED << request, store, storeAtStart, failing, throwing, thrown, pc, currentDate,
                    iterationCount, bookingsToInsert, filteredBookingsToInsert, log, queried,
                    insertCalls, responses >>

\* The loop of the second run is over: the filter, and the answer if the
\* batch is empty.
OtherExitLoop ==
    /\ other.pc = "loop"
    /\ ~LoopContinues(other.iterationCount, ParseEndDate(other.request.endDate),
                      other.currentDate)
    /\ \E filtered \in
             { FilterInitial(other.bookingsToInsert, other.request.initialBooking[1]) } :
           other' = [ other EXCEPT
                        !.filteredBookingsToInsert = filtered,
                        !.pc = IF Len(filtered) > 0 THEN "insert" ELSE "done",
                        !.responses =
                            IF Len(filtered) > 0
                            THEN @
                            ELSE Append(@, SuccessResponse(
                                     ReportedCount(other.bookingsToInsert, filtered))) ]
    /\ UNCHANGED << request, store, storeAtStart, failing, throwing, thrown, pc, currentDate,
                    iterationCount, bookingsToInsert, filteredBookingsToInsert, log, queried,
                    insertCalls, responses >>

\* The bulk insert of the second run persists its batch.
OtherInsertSucceeds ==
    /\ other.pc = "insert"
    /\ store' = StoreAfterInsert(store, other.filteredBookingsToInsert)
    /\ other' = [ other EXCEPT
                    !.pc = "done",
                    !.responses =
                        Append(@, InsertResponse(FALSE, other.bookingsToInsert,
                                                 other.filteredBookingsToInsert)) ]
    /\ UNCHANGED << request, storeAtStart, failing, throwing, thrown, pc, currentDate,
                    iterationCount, bookingsToInsert, filteredBookingsToInsert, log, queried,
                    insertCalls, responses >>

\* The steps of the two runs, in any order.
RaceNext ==
    \/ Begin
    \/ Iterate
    \/ ExitLoop
    \/ InsertSucceeds
    \/ InsertFails
    \/ OtherBegin
    \/ OtherIterate
    \/ OtherExitLoop
    \/ OtherInsertSucceeds

RaceSpec == InitRace /\ [][RaceNext]_vars /\ WF_vars(RaceNext)


(***************************************************************************)
(* The earlier version of the function whose safety cap is on the size of  *)
(* the batch.  It shares the handler's start, its filter, its bulk insert  *)
(* and its responses; its loop has no iteration count, applies the         *)
(* week-of-month rule to a daily series, steps a monthly series by         *)
(* addMonths alone and leaves the loop after the first iteration of a      *)
(* custom series.                                                          *)
(***************************************************************************)

\* The model follows the loop of this version for at most this many
\* iterations: more than any run that the cap on the batch ends.
MaxVariantIterations == 2 * MAX_ITERATIONS

VariantIterations == 0..(MaxVariantIterations - 1)

\* The while condition of this version.
VariantLoopContinues(endDate, date) ==
    IF Len(endDate) = 0 THEN TRUE ELSE ~isBefore(endDate[1], date)

\* Requests without an end date, or with one ten days on, over a store that
\* holds the template alone: no query fails, or every query fails.
InitVariant ==
    \E date \in {<<2024, 1, 31>>}, repeatType \in KnownRepeatTypes :
        /\ request \in { Request(date, repeatType, << >>),
                         Request(date, repeatType, << format(parseISO(date) + 10) >>) }
        /\ store = {TemplateRow(date)}
        /\ failing \in {{}, VariantIterations}
        /\ throwing = {}
        /\ other = NoOther
        /\ InitHandler

\* One iteration of the loop of this version; log counts its iterations.
VariantIterate ==
    /\ pc = "loop"
    /\ VariantLoopContinues(ParseEndDate(request.endDate), currentDate)
    /\ Len(log) < MaxVariantIterations
    /\ \E initialBooking \in {request.initialBooking[1]}, repeatType \in {request.repeatType},
          proposedBookingDate \in {format(currentDate)} :
       \E calendarOk \in {IF repeatType = "daily" THEN WeekOfMonthRule(currentDate) ELSE TRUE} :
       \E shouldBook \in
             { calendarOk /\ QueryAllows(store, Len(log) \in failing, initialBooking,
                                         proposedBookingDate) } :
       \E batch \in
             { IF shouldBook
               THEN Append(bookingsToInsert,
                           NewBooking(request.userId, initialBooking, proposedBookingDate))
               ELSE bookingsToInsert } :
           /\ queried' = IF calendarOk THEN Append(queried, proposedBookingDate) ELSE queried
           /\ bookingsToInsert' = batch
           /\ log' = Append(log, [ date |-> proposedBookingDate, added |-> shouldBook ])
           /\ IF repeatType \in {"daily", "weekly", "monthly"}
              THEN /\ currentDate' = IF repeatType = "daily" THEN addDays(currentDate, 1)
                                     ELSE IF repeatType = "weekly" THEN addWeeks(currentDate, 1)
                                     ELSE addMonths(currentDate, 1)
                   /\ IF Len(batch) > 365 * 2
                      THEN AfterLoop(batch)
                      ELSE UNCHANGED << pc, filteredBookingsToInsert, responses >>
              ELSE /\ AfterLoop(batch)
                   /\ UNCHANGED currentDate
    /\ UNCHANGED << request, store, storeAtStart, failing, throwing, other, thrown, iterationCount,
                    insertCalls >>

\* The while condition of this version is false.
VariantExitLoop ==
    /\ pc = "loop"
    /\ ~VariantLoopContinues(ParseEndDate(request.endDate), currentDate)
    /\ AfterLoop(bookingsToInsert)
    /\ UNCHANGED << request, store, storeAtStart, failing, throwing, other, thrown, currentDate,
                    iterationCount, bookingsToInsert, log, queried, insertCalls >>

VariantNext ==
    \/ Begin
    \/ VariantIterate
    \/ VariantExitLoop
    \/ InsertSucceeds
    \/ InsertFails

\* The runtime runs the handler on and every awaited call returns.
VariantSpec == InitVariant /\ [][VariantNext]_vars /\ WF_vars(VariantNext)


(***************************************************************************)
(* Vocabulary of the properties, independent of the handler's own          *)
(* computations.                                                           *)
(***************************************************************************)

\* The request passed validation and the loop has ended.
LoopEnded ==
    \/ pc = "insert"
    \/ pc = "done" /\ Len(log) > 0 /\ \A i \in 1..Len(thrown) : thrown[i] # "query threw"

\* The template booking and its date, room and times.
TheTemplate == request.initialBooking[1]

\* The dates of the rows of the insert batch.
BatchDates == { filteredBookingsToInsert[j].date : j \in 1..Len(filteredBookingsToInsert) }

\* Every row handed to the bulk insert.
SubmittedRows ==
    UNION { { insertCalls[c].rows[j] : j \in 1..Len(insertCalls[c].rows) } :
            c \in 1..Len(insertCalls) }

IsFriday(s) == getDay(parseISO(s)) = 5
IsSaturday(s) == getDay(parseISO(s)) = 6

\* Which Saturday of its month a Saturday is: days 1-7 hold the 1st, 8-14 the 2nd, ...
SaturdayOrdinal(s) == ((s[3] - 1) \div 7) + 1

\* The exclusion calendar of the specification.
Excluded(s) == IsFriday(s) \/ (IsSaturday(s) /\ SaturdayOrdinal(s) \in {1, 3, 4})

\* The half-open overlap test between a stored booking and the template's time
\* on date s in the template's room.
Overlaps(r, s) ==
    /\ r.room_id = TheTemplate.room_id
    /\ r.date = s
    /\ r.start_time < TheTemplate.end_time
    /\ r.end_time > TheTemplate.start_time

\* The log positions whose date passed the calendar and whose query returned rows.
Answered == { k \in 1..Len(log) :
                 /\ \E q \in 1..Len(queried) : queried[q] = log[k].date
                 /\ (k - 1) \notin failing }

(***************************************************************************)
(* C1. In a daily series no row handed to the bulk insert is dated on a    *)
(* Friday or on the 1st, 3rd or 4th Saturday of its month.                 *)
(***************************************************************************)
C1_DailyBatchAvoidsExcludedDays ==
    request.repeatType = "daily" => \A b \in SubmittedRows : ~Excluded(b.date)

\* A daily batch that reaches past a skipped Friday, a skipped 4th Saturday of
\* a month with four Saturdays, and holds a 2nd Saturday.
C1_Witness ==
    /\ request.repeatType = "daily"
    /\ Len(insertCalls) = 1
    /\ \E k \in 1..Len(log) : IsFriday(log[k].date) /\ ~log[k].added
    /\ \E k \in 1..Len(log) :
          /\ IsSaturday(log[k].date) /\ SaturdayOrdinal(log[k].date) = 4 /\ ~log[k].added
          /\ getMonth(parseISO(log[k].date) + 7) # getMonth(parseISO(log[k].date))
    /\ \E b \in SubmittedRows : IsSaturday(b.date) /\ SaturdayOrdinal(b.date) = 2

(***************************************************************************)
(* C2. A date that passed the calendar and whose conflict query returned   *)
(* is left out of the insert batch exactly when the store holds a booking  *)
(* of the same room and date that overlaps it under the half-open test;    *)
(* bookings that only touch its start or its end do not leave it out.      *)
(***************************************************************************)
C2_SkippedIffOverlap ==
    LoopEnded =>
        \A k \in Answered :
            (log[k].date \notin BatchDates) <=> (\E r \in storeAtStart : Overlaps(r, log[k].date))

\* A repeat date is in the batch although a stored booking of the same room
\* ends exactly at its start, or starts exactly at its end.
C2_Witness ==
    /\ LoopEnded
    /\ \E k \in Answered, r \in storeAtStart :
          /\ r.room_id = TheTemplate.room_id /\ r.date = log[k].date
          /\ r.end_time = TheTemplate.start_time \/ r.start_time = TheTemplate.end_time
          /\ log[k].date \in BatchDates


(***************************************************************************)
(* C3. A weekly series with an end date and no conflicting booking inserts *)
(* exactly the dates templateDate + 7k days, k = 1, 2, ..., that are not   *)
(* after the end date.                                                     *)
(***************************************************************************)

\* A weekly request with an end date whose insert succeeded, over a store
\* without a booking that overlaps the template's time in its room, and
\* without a failing or throwing call.
WeeklyUnhindered ==
    /\ pc = "done"
    /\ request.repeatType = "weekly"
    /\ Len(request.endDate) = 1
    /\ failing = {}
    /\ Len(thrown) = 0
    /\ \A r \in storeAtStart :
          r.id # TheTemplate.id => ~Overlaps(r, r.date)
    /\ \A c \in 1..Len(insertCalls) : ~insertCalls[c].error

\* The dates templateDate + 7k, k in 1..maxK, not after the end date.
WeeklyDates(maxK) ==
    { format(parseISO(TheTemplate.date) + 7 * k) :
        k \in { n \in 1..maxK :
                  parseISO(TheTemplate.date) + 7 * n <= parseISO(request.endDate[1]) } }

\* The dates this call added to the store.
InsertedDates == { r.date : r \in store \ storeAtStart }

IsLeapYear(y) == (y % 4 = 0 /\ y % 100 # 0) \/ y % 400 = 0

DaysInMonth(y, m) ==
    IF m = 2 THEN (IF IsLeapYear(y) THEN 29 ELSE 28)
    ELSE IF m \in {4, 6, 9, 11} THEN 30 ELSE 31

\* The date k months after s, its day clamped from the day of s.
MonthsAfter(s, k) ==
    LET index == (s[2] - 1) + k
        y     == s[1] + index \div 12
        m     == (index % 12) + 1
    IN  << y, m, Min(s[3], DaysInMonth(y, m)) >>

C4_MonthlyClampFromTemplateDay ==
    (pc = "loop" /\ request.repeatType = "monthly") =>
        format(currentDate) = MonthsAfter(TheTemplate.date, iterationCount)

\* From 2024-01-31: 02-29, then 03-31, then 04-30.
C4_Witness ==
    /\ pc = "loop"
    /\ request.repeatType = "monthly"
    /\ TheTemplate.date = <<2024, 1, 31>>
    /\ iterationCount = 3
    /\ log[2].date = <<2024, 2, 29>>
    /\ log[3].date = <<2024, 3, 31>>
    /\ format(currentDate) = <<2024, 4, 30>>


(***************************************************************************)
(* C5. A call without an end date ends with a response whatever the repeat *)
(* type and whatever the conflict queries return, and the loop never       *)
(* reaches a 731st date after the template's.                              *)
(***************************************************************************)
NoEndDate == request.method = "POST" /\ Len(request.endDate) = 0

\* The dates after the template's that the loop has taken up.
RepeatCandidates == { k \in 1..Len(log) : log[k].date # TheTemplate.date }

C5_NoEndDateTerminatesWithinCap ==
    /\ [](NoEndDate => Cardinality(RepeatCandidates) <= 730)
    /\ <>(NoEndDate => (pc = "done" /\ Len(responses) = 1))

\* A call without an end date has answered after running into the cap, with
\* every query failing, or with every date taken.
C5_Witness ==
    /\ NoEndDate
    /\ pc = "done"
    /\ Len(responses) = 1
    /\ iterationCount = MAX_ITERATIONS
    /\ failing = AllIterations \/ Cardinality(storeAtStart) > MAX_ITERATIONS

(***************************************************************************)
(* C6. No row handed to the bulk insert has the template's date together   *)
(* with the template's start and end time.                                 *)
(***************************************************************************)
C6_TemplateOccurrenceNotInserted ==
    \A b \in SubmittedRows :
        ~(/\ b.date = TheTemplate.date
          /\ b.start_time = TheTemplate.start_time
          /\ b.end_time = TheTemplate.end_time)

\* The loop had put the template's own date on bookingsToInsert, and a batch
\* was handed to the bulk insert.
C6_Witness ==
    /\ Len(insertCalls) = 1
    /\ log[1].date = TheTemplate.date
    /\ log[1].added
    /\ bookingsToInsert[1].date = TheTemplate.date


(***************************************************************************)
(* C7. A failed bulk insert is answered with HTTP 500 and an error field   *)
(* alone and leaves the store as it was; a success response means every    *)
(* row of the batch is in the store.                                       *)
(***************************************************************************)
TheResponse == responses[1]

\* Row b of a batch is in the store among the rows added by this call.
IsPersisted(b) ==
    \E r \in store \ storeAtStart :
        /\ r.user_id = b.user_id /\ r.room_id = b.room_id /\ r.title = b.title
        /\ r.date = b.date /\ r.start_time = b.start_time /\ r.end_time = b.end_time
        /\ r.remarks = b.remarks

C7_InsertAllOrError ==
    (pc = "done" /\ Len(log) > 0) =>
        /\ (\E c \in 1..Len(insertCalls) : insertCalls[c].error) =>
              /\ TheResponse.status = 500
              /\ DOMAIN TheResponse.body = {"error"}
              /\ store = storeAtStart
        /\ TheResponse.status = 200 =>
              \A j \in 1..Len(filteredBookingsToInsert) : IsPersisted(filteredBookingsToInsert[j])

\* Both outcomes of a bulk insert of at least two rows.
C7_Witness ==
    /\ pc = "done"
    /\ Len(log) > 0
    /\ Len(insertCalls) = 1
    /\ Len(insertCalls[1].rows) >= 2
    /\ \/ insertCalls[1].error /\ TheResponse.status = 500
       \/ ~insertCalls[1].error /\ TheResponse.status = 200

(***************************************************************************)
(* C8. A failed conflict query skips its own date only: the loop runs on   *)
(* to its end, every later date that passes the calendar and has no        *)
(* conflict is in the batch, and the failure alone yields no error         *)
(* response.                                                               *)
(***************************************************************************)

\* The log positions whose conflict query failed.
FailedQueries == { k \in 1..Len(log) :
                     /\ \E q \in 1..Len(queried) : queried[q] = log[k].date
                     /\ (k - 1) \in failing }

C8_QueryFailureSkipsOneDate ==
    (LoopEnded /\ FailedQueries # {}) =>
        /\ \A k \in FailedQueries : ~log[k].added /\ log[k].date \notin BatchDates
        /\ request.repeatType \in KnownRepeatTypes =>
              ~LoopContinues(Len(log), ParseEndDate(request.endDate), currentDate)
        /\ \A k \in Answered :
              (log[k].date # TheTemplate.date /\ ~\E r \in storeAtStart : Overlaps(r, log[k].date))
                  => log[k].date \in BatchDates
        /\ (pc = "done" /\ TheResponse.status # 200) =>
              \E c \in 1..Len(insertCalls) : insertCalls[c].error

\* One query failed, a later date was still inserted, and the call succeeded.
C8_Witness ==
    /\ pc = "done"
    /\ Len(log) > 0
    /\ Cardinality(FailedQueries) = 1
    /\ \E k \in FailedQueries, j \in Answered : j > k /\ IsPersisted([ user_id |-> request.userId,
           room_id |-> TheTemplate.room_id, title |-> TheTemplate.title, date |-> log[j].date,
           start_time |-> TheTemplate.start_time, end_time |-> TheTemplate.end_time,
           remarks |-> TheTemplate.remarks ])
    /\ TheResponse.status = 200

(***************************************************************************)
(* C9. The count of a success response is the number of rows this call     *)
(* added to the store.                                                     *)
(***************************************************************************)
C9_CountIsRowsInserted ==
    (pc = "done" /\ Len(log) > 0 /\ TheResponse.status = 200) =>
        TheResponse.body.count = Cardinality(store \ storeAtStart)

\* A success whose loop had booked the template's date, skipped a date by the
\* calendar, and skipped a date for a conflict or a failed query.
C9_Witness ==
    /\ pc = "done"
    /\ Len(log) > 0
    /\ TheResponse.status = 200
    /\ TheResponse.body.count >= 1
    /\ log[1].added
    /\ \E k \in 1..Len(log) : ~log[k].added /\ \A q \in 1..Len(queried) : queried[q] # log[k].date
    /\ \E k \in 1..Len(log) : ~log[k].added /\ \E q \in 1..Len(queried) : queried[q] = log[k].date

(***************************************************************************)
(* C10. When no collaborator call fails, the call succeeds with count the  *)
(* number of dates after the template's that pass the calendar and have no *)
(* conflicting booking, however many dates conflict.                       *)
(***************************************************************************)
NoCallFailed == failing = {} /\ throwing = {} /\ \A c \in 1..Len(insertCalls) : ~insertCalls[c].error

\* The log positions after the template's whose date passed the calendar and
\* has no overlapping booking in the store.
FreeCandidates ==
    { k \in 2..Len(log) :
        /\ \E q \in 1..Len(queried) : queried[q] = log[k].date
        /\ ~\E r \in storeAtStart : Overlaps(r, log[k].date) }

C10_ConflictsAreNotErrors ==
    (pc = "done" /\ Len(log) > 0 /\ NoCallFailed) =>
        /\ TheResponse.status = 200
        /\ TheResponse.body.count = Cardinality(FreeCandidates)

\* Weekly from 2024-01-01 to 2024-01-22 with room R1 taken on 2024-01-15:
\* count 2, and 2024-01-15 is not in the batch.
C10_Witness ==
    /\ pc = "done"
    /\ Len(log) > 0
    /\ NoCallFailed
    /\ request.repeatType = "weekly"
    /\ TheTemplate.date = <<2024, 1, 1>>
    /\ request.endDate = << <<2024, 1, 22>> >>
    /\ \E r \in storeAtStart : r.id # TheTemplate.id /\ Overlaps(r, <<2024, 1, 15>>)
    /\ TheResponse.status = 200
    /\ TheResponse.body.count = 2
    /\ BatchDates = { <<2024, 1, 8>>, <<2024, 1, 22>> }

(***************************************************************************)
(* C11. In a custom series no row handed to the bulk insert is dated on a  *)
(* Friday or on the 1st, 3rd or 4th Saturday of its month, as in a daily   *)
(* series.                                                                 *)
(***************************************************************************)
C11_CustomBatchAvoidsExcludedDays ==
    request.repeatType = "custom" => \A b \in SubmittedRows : ~Excluded(b.date)

(***************************************************************************)
(* C12. In a weekly or monthly series the calendar drops no date: every    *)
(* date the loop takes up is queried, and a date after the template's is   *)
(* booked exactly when its query returns no overlapping booking, Fridays   *)
(* and 1st, 3rd and 4th Saturdays included.                                *)
(***************************************************************************)
C12_WeeklyMonthlyIgnoreCalendar ==
    request.repeatType \in {"weekly", "monthly"} =>
        /\ Len(queried) >= Len(log)
        /\ \A k \in 1..Len(log) :
              /\ queried[k] = log[k].date
              /\ log[k].date # TheTemplate.date =>
                    (log[k].added <=>
                        /\ (k - 1) \notin failing
                        /\ ~\E r \in storeAtStart : Overlaps(r, log[k].date))
        /\ LoopEnded =>
              \A k \in 1..Len(log) :
                  (log[k].added /\ log[k].date # TheTemplate.date) => log[k].date \in BatchDates

\* A weekly series from Friday 2024-03-01 has inserted the Fridays 03-08 and 03-15.
C12_Witness ==
    /\ pc = "done"
    /\ Len(log) > 0
    /\ request.repeatType = "weekly"
    /\ TheTemplate.date = <<2024, 3, 1>>
    /\ IsFriday(TheTemplate.date)
    /\ {<<2024, 3, 8>>, <<2024, 3, 15>>} \subseteq InsertedDates
    /\ \A s \in InsertedDates : IsFriday(s)

(***************************************************************************)
(* C13. A complete request whose repeatType is none of daily, weekly,      *)
(* monthly and custom is answered with success and count 0 without any     *)
(* conflict query and without a bulk insert.                               *)
(***************************************************************************)
C13_NonRepeatingIssuesNoCall ==
    (/\ pc = "done"
     /\ request.method = "POST"
     /\ Len(request.initialBooking) = 1
     /\ request.userId # ""
     /\ request.repeatType \notin KnownRepeatTypes \cup {""}) =>
        /\ TheResponse.status = 200
        /\ TheResponse.body.count = 0
        /\ Len(queried) = 0
        /\ Len(insertCalls) = 0

(***************************************************************************)
(* C14. A request whose body lacks initialBooking, repeatType or userId is *)
(* answered with HTTP 400 and an error field alone; no conflict query and  *)
(* no bulk insert is issued for it and the store stays as it was.          *)
(***************************************************************************)
MissingField ==
    /\ request.method = "POST"
    /\ request.bodyIsJson
    /\ Len(request.initialBooking) = 0 \/ request.repeatType = "" \/ request.userId = ""

C14_MissingParametersRejected ==
    MissingField =>
        /\ Len(queried) = 0
        /\ Len(log) = 0
        /\ Len(insertCalls) = 0
        /\ store = storeAtStart
        /\ pc \in {"recv", "done"}
        /\ pc = "done" =>
              /\ Len(responses) = 1
              /\ TheResponse.status = 400
              /\ DOMAIN TheResponse.body = {"error"}

\* A request without userId, and one without initialBooking, has been answered.
C14_Witness ==
    /\ MissingField
    /\ request.userId = "" \/ Len(request.initialBooking) = 0
    /\ pc = "done"
    /\ TheResponse.status = 400

(***************************************************************************)
(* C15. An OPTIONS request is answered with status 200, an empty body and  *)
(* the two cross-origin headers alone, whatever its body is: nothing is    *)
(* thrown by reading it, and no conflict query or insert is issued.        *)
(***************************************************************************)
C15_PreflightAnsweredEmpty ==
    request.method = "OPTIONS" =>
        /\ Len(thrown) = 0
        /\ Len(queried) = 0
        /\ Len(insertCalls) = 0
        /\ store = storeAtStart
        /\ pc \in {"recv", "done"}
        /\ pc = "done" =>
              /\ Len(responses) = 1
              /\ TheResponse.status = 200
              /\ DOMAIN TheResponse.body = {}
              /\ TheResponse.headers =
                    {"Access-Control-Allow-Origin", "Access-Control-Allow-Headers"}

\* An OPTIONS request whose body is not JSON has been answered with 200.
C15_Witness ==
    /\ request.method = "OPTIONS"
    /\ ~request.bodyIsJson
    /\ pc = "done"
    /\ TheResponse.status = 200

(***************************************************************************)
(* C16. Every request is answered exactly once, with status 200, 400 or    *)
(* 500; once an exception has been raised (a body that is not JSON, a      *)
(* template date that is no date, a collaborator call that throws) the     *)
(* answer is a 500 whose body is an error field holding its message.       *)
(***************************************************************************)
C16_OneResponsePerRequest ==
    /\ [](/\ Len(responses) <= 1
          /\ pc = "done" <=> Len(responses) = 1
          /\ \A i \in 1..Len(responses) : responses[i].status \in {200, 400, 500}
          /\ Len(thrown) > 0 =>
                /\ Len(thrown) = 1
                /\ pc = "done"
                /\ TheResponse.status = 500
                /\ DOMAIN TheResponse.body = {"error"}
                /\ TheResponse.body.error = thrown[1])
    /\ <>(pc = "done" /\ Len(responses) = 1)

\* A conflict query has thrown after an iteration that ran, and the request
\* has been answered with 500.
C16_Witness ==
    /\ pc = "done"
    /\ thrown = << "query threw" >>
    /\ Len(log) > 0
    /\ TheResponse.status = 500

(***************************************************************************)
(* C17. A daily series with an end date and no failing query hands to the  *)
(* bulk insert exactly the dates after the template's and not after the    *)
(* end date that the calendar does not exclude and that have no            *)
(* overlapping booking; the end date itself is among them when eligible.   *)
(***************************************************************************)

\* The loop of a daily request with an end date has ended, and no conflict
\* query failed.
DailyUnhindered ==
    /\ LoopEnded
    /\ request.repeatType = "daily"
    /\ Len(request.endDate) = 1
    /\ failing = {}

\* The eligible dates among the first maxK days after the template's.
DailyDates(maxK) ==
    { s \in { format(parseISO(TheTemplate.date) + k) :
                k \in { n \in 1..maxK :
                          parseISO(TheTemplate.date) + n <= parseISO(request.endDate[1]) } } :
        /\ ~Excluded(s)
        /\ ~\E r \in storeAtStart : Overlaps(r, s) }

C18_SaturdayDroppedIffFirstThirdFourth ==
    request.repeatType = "daily" =>
        \A k \in 1..Len(log) :
            IsSaturday(log[k].date) =>
                /\ (\A q \in 1..Len(queried) : queried[q] # log[k].date)
                      <=> SaturdayOrdinal(log[k].date) \in {1, 3, 4}
                /\ (/\ SaturdayOrdinal(log[k].date) \in {2, 5}
                    /\ log[k].date # TheTemplate.date
                    /\ (k - 1) \notin failing
                    /\ ~\E r \in storeAtStart : Overlaps(r, log[k].date))
                      => /\ log[k].added
                         /\ LoopEnded => log[k].date \in BatchDates

\* A daily series has inserted a 2nd and a 5th Saturday and has dropped a
\* 1st, a 3rd and a 4th.
C18_Witness ==
    /\ request.repeatType = "daily"
    /\ pc = "done"
    /\ \A n \in {2, 5} : \E s \in InsertedDates : IsSaturday(s) /\ SaturdayOrdinal(s) = n
    /\ \A n \in {1, 3, 4} :
          \E k \in 1..Len(log) :
              IsSaturday(log[k].date) /\ SaturdayOrdinal(log[k].date) = n /\ ~log[k].added

(***************************************************************************)
(* C19. In a daily series without an end date that the cap has stopped,    *)
(* the dates after the template's that the calendar did not drop number    *)
(* 730: dropped dates use up none of the cap.                              *)
(***************************************************************************)
C19_DroppedDatesOutsideCap ==
    (/\ request.repeatType = "daily"
     /\ NoEndDate
     /\ LoopEnded
     /\ iterationCount = MAX_ITERATIONS) =>
        Cardinality({ k \in RepeatCandidates : ~Excluded(log[k].date) }) = 730

(***************************************************************************)
(* C20. A weekly or monthly series without an end date, over a store that  *)
(* holds the template alone and with no failing call, inserts exactly 730  *)
(* rows: the template's own date uses up none of the cap.                  *)
(***************************************************************************)
C20_CapCountsRepeatsOnly ==
    (/\ request.repeatType \in {"weekly", "monthly"}
     /\ NoEndDate
     /\ Cardinality(storeAtStart) = 1
     /\ NoCallFailed
     /\ pc = "done"
     /\ Len(log) > 0) =>
        /\ TheResponse.status = 200
        /\ TheResponse.body.count = 730
        /\ Cardinality(store \ storeAtStart) = 730

(***************************************************************************)
(* C21. The collaborator calls of one invocation form a single pass: the   *)
(* conflict queries are issued for strictly increasing dates, so no date   *)
(* is queried twice; at most one bulk insert is issued; it is issued once  *)
(* the loop is over, and no conflict query follows it.                     *)
(***************************************************************************)
QueriesIncreasing ==
    \A q \in 1..(Len(queried) - 1) : parseISO(queried[q]) < parseISO(queried[q + 1])

C21_SinglePassOfCalls ==
    /\ [](QueriesIncreasing /\ Len(insertCalls) <= 1)
    /\ [][/\ insertCalls' # insertCalls => (pc = "insert" /\ queried' = queried)
          /\ Len(insertCalls) > 0 => queried' = queried]_vars

\* Three dates have been queried and the one bulk insert has been issued.
C21_Witness ==
    /\ pc = "done"
    /\ Len(queried) >= 3
    /\ Len(insertCalls) = 1

(***************************************************************************)
(* C22. In a daily series a date that the calendar excludes is skipped     *)
(* without a conflict query: no queried date is a Friday or a 1st, 3rd or  *)
(* 4th Saturday.                                                           *)
(***************************************************************************)
C22_DroppedDatesAreNotQueried ==
    request.repeatType = "daily" =>
        /\ \A q \in 1..Len(queried) : ~Excluded(queried[q])
        /\ \A k \in 1..Len(log) : Excluded(log[k].date) => ~log[k].added

\* A daily loop has skipped an excluded date and has queried a later date.
C22_Witness ==
    /\ request.repeatType = "daily"
    /\ \E k \in 1..Len(log) :
          /\ Excluded(log[k].date)
          /\ \E q \in 1..Len(queried) : parseISO(queried[q]) > parseISO(log[k].date)

(***************************************************************************)
(* C23. The first date the loop takes up is one step past the template's   *)
(* date, and no conflict query is issued for the template's own date.      *)
(***************************************************************************)
C23_TemplateDateIsNoCandidate ==
    /\ Len(log) > 0 => log[1].date # TheTemplate.date
    /\ \A q \in 1..Len(queried) : queried[q] # TheTemplate.date

(***************************************************************************)
(* C24. An invocation changes neither its request nor any stored row: the  *)
(* rows of the store at its start stay in the store as they were, every    *)
(* row added carries a fresh id and is a row of the batch, and an          *)
(* invocation that ends with anything but a success of count at least 1    *)
(* leaves the store exactly as it was.                                     *)
(***************************************************************************)
\* The response is none of the successes that report at least one row.
InsertedNothing ==
    IF TheResponse.status = 200 /\ "count" \in DOMAIN TheResponse.body
    THEN TheResponse.body.count = 0
    ELSE TRUE

C24_StoreOnlyGainsBatchRows ==
    /\ [](/\ storeAtStart \subseteq store
          /\ \A r \in store \ storeAtStart :
                /\ \A old \in storeAtStart : old.id # r.id
                /\ \E j \in 1..Len(filteredBookingsToInsert) :
                      /\ r.date = filteredBookingsToInsert[j].date
                      /\ r.room_id = filteredBookingsToInsert[j].room_id
                      /\ r.start_time = filteredBookingsToInsert[j].start_time
                      /\ r.end_time = filteredBookingsToInsert[j].end_time
          /\ (pc = "done" /\ InsertedNothing) => store = storeAtStart)
    /\ [][request' = request]_vars

\* A successful insert on a date and in a room for which the store already
\* held another, non-overlapping booking.
C24_Witness ==
    /\ pc = "done"
    /\ Len(log) > 0
    /\ TheResponse.status = 200
    /\ \E old \in storeAtStart, r \in store \ storeAtStart :
          /\ old.id # TheTemplate.id
          /\ old.room_id = r.room_id
          /\ old.date = r.date

(***************************************************************************)
(* C25. Every row put on the batch has the template's room_id, title,      *)
(* start_time, end_time and remarks and the request's userId as user_id:   *)
(* the rows of one batch differ in their date alone.                       *)
(***************************************************************************)
CopiesTemplate(b) ==
    /\ DOMAIN b = {"user_id", "room_id", "title", "date", "start_time", "end_time", "remarks"}
    /\ b.user_id = request.userId
    /\ b.room_id = TheTemplate.room_id
    /\ b.title = TheTemplate.title
    /\ b.start_time = TheTemplate.start_time
    /\ b.end_time = TheTemplate.end_time
    /\ b.remarks = TheTemplate.remarks

C25_BatchRowsCopyTemplate ==
    /\ \A j \in 1..Len(bookingsToInsert) : CopiesTemplate(bookingsToInsert[j])
    /\ \A j \in 1..Len(filteredBookingsToInsert) : CopiesTemplate(filteredBookingsToInsert[j])
    /\ \A b \in SubmittedRows : CopiesTemplate(b)
    /\ \A i, j \in 1..Len(filteredBookingsToInsert) :
          [ filteredBookingsToInsert[i] EXCEPT !.date = << >> ] =
              [ filteredBookingsToInsert[j] EXCEPT !.date = << >> ]

\* A batch of at least two rows has been handed to the bulk insert.
C25_Witness ==
    /\ Len(insertCalls) = 1
    /\ Len(insertCalls[1].rows) >= 2
    /\ TheTemplate.remarks # ""

(***************************************************************************)
(* C26. The dates of a batch are strictly increasing in batch order, hence *)
(* pairwise distinct; each is strictly after the template's date and, when *)
(* an end date is given, not after the end date.                           *)
(***************************************************************************)

\* The dates of a sequence of rows are strictly increasing.
DatesIncreasing(rows) ==
    \A j \in 1..(Len(rows) - 1) : parseISO(rows[j].date) < parseISO(rows[j + 1].date)

\* The dates of a sequence of rows are not after the end date, if there is one.
DatesWithinEnd(rows) ==
    Len(request.endDate) = 1 =>
        \A j \in 1..Len(rows) : parseISO(rows[j].date) <= parseISO(request.endDate[1])

C26_BatchDatesOrderedAndInRange ==
    /\ DatesIncreasing(bookingsToInsert)
    /\ DatesWithinEnd(bookingsToInsert)
    /\ DatesIncreasing(filteredBookingsToInsert)
    /\ DatesWithinEnd(filteredBookingsToInsert)
    /\ \A j \in 1..Len(filteredBookingsToInsert) :
          parseISO(filteredBookingsToInsert[j].date) > parseISO(TheTemplate.date)
    /\ \A c \in 1..Len(insertCalls) : insertCalls[c].rows = filteredBookingsToInsert

\* A batch of three rows whose last date is the end date has been handed to
\* the bulk insert.
C26_Witness ==
    /\ Len(insertCalls) = 1
    /\ Len(insertCalls[1].rows) >= 3
    /\ Len(request.endDate) = 1
    /\ insertCalls[1].rows[Len(insertCalls[1].rows)].date = request.endDate[1]

(***************************************************************************)
(* C27. When no date after the template's is booked, the bulk insert is    *)
(* not called, the answer is 200 with count 0 and the store is as it was;  *)
(* when the end date is before the template's date, no conflict query is   *)
(* issued either.                                                          *)
(***************************************************************************)

\* A complete request has been answered and nothing was thrown.
Handled ==
    /\ pc = "done"
    /\ request.method = "POST"
    /\ request.bodyIsJson
    /\ ~MissingField
    /\ Len(thrown) = 0

\* No date after the template's was booked.
NoSurvivor == \A k \in 1..Len(log) : log[k].date = TheTemplate.date \/ ~log[k].added

C27_EmptyBatchIsSuccessWithoutInsert ==
    /\ (Handled /\ NoSurvivor) =>
          /\ Len(insertCalls) = 0
          /\ TheResponse.status = 200
          /\ TheResponse.body.count = 0
          /\ store = storeAtStart
    /\ (/\ Handled
        /\ Len(request.endDate) = 1
        /\ parseISO(request.endDate[1]) < parseISO(TheTemplate.date)) =>
          /\ Len(queried) = 0
          /\ Len(log) = 0

\* Three dates after the template's were taken up and none was booked: one
\* dropped by the calendar, one for a conflict or a failed query.
C27_Witness ==
    /\ Handled
    /\ NoSurvivor
    /\ Len(log) >= 3
    /\ \E k \in 2..Len(log) : \A q \in 1..Len(queried) : queried[q] # log[k].date
    /\ \E k \in 2..Len(log) : \E q \in 1..Len(queried) : queried[q] = log[k].date
    /\ TheResponse.body.count = 0

(***************************************************************************)
(* C28. Two invocations for the same room and overlapping times that run   *)
(* at once over a store without overlapping bookings leave no two          *)
(* overlapping bookings of that room on one date in the store: at most one *)
(* of them inserts a row for a date both take up.                          *)
(***************************************************************************)

\* The two requests are for the same room and their times overlap.
SameRoomOverlappingTimes ==
    /\ other.pc # "absent"
    /\ other.request.initialBooking[1].room_id = TheTemplate.room_id
    /\ other.request.initialBooking[1].start_time < TheTemplate.end_time
    /\ other.request.initialBooking[1].end_time > TheTemplate.start_time

\* No two rows of the store are bookings of one room on one date whose times overlap.
NoDoubleBooking ==
    \A r1, r2 \in store :
        (r1.id # r2.id /\ r1.room_id = r2.room_id /\ r1.date = r2.date) =>
            ~(r1.start_time < r2.end_time /\ r2.start_time < r1.end_time)

C28_InterleavedCallsKeepNoDoubleBooking ==
    SameRoomOverlappingTimes => NoDoubleBooking

(***************************************************************************)
(* C29. On every Saturday the week-of-month index of the earlier version   *)
(* is the ordinal of that Saturday in its month as the current version     *)
(* counts it, and on every date the two rules agree on whether a daily     *)
(* series books it: the 1st, 3rd and 4th Saturday are dropped, the 2nd and *)
(* the 5th kept.                                                           *)
(***************************************************************************)
C29_WeekOfMonthIsSaturdayOrdinal ==
    pc = "loop" =>
        /\ WeekOfMonthRule(currentDate) <=> CalendarAllows("daily", currentDate)
        /\ IsSaturday(format(currentDate)) =>
              /\ getWeekOfMonth(currentDate) = SaturdayOrdinal(format(currentDate))
              /\ getWeekOfMonth(currentDate) =
                    CountSaturdays(currentDate, getDate(currentDate))
              /\ WeekOfMonthRule(currentDate) <=> getWeekOfMonth(currentDate) \in {2, 5}

\* The daily loop of the earlier version stands at a 5th Saturday, in a month
\* that began on a Sunday, and has dropped a 4th Saturday before.
C29_Witness ==
    /\ pc = "loop"
    /\ request.repeatType = "daily"
    /\ IsSaturday(format(currentDate))
    /\ getWeekOfMonth(currentDate) = 5
    /\ \E k \in 1..Len(log) :
          /\ IsSaturday(log[k].date) /\ SaturdayOrdinal(log[k].date) = 4 /\ ~log[k].added
    /\ \E k \in 1..Len(log) :
          /\ log[k].date[3] = 1 /\ getDay(parseISO(log[k].date)) = 0

(***************************************************************************)
(* C30. In the earlier version with the cap on the size of the batch, the  *)
(* cap ends a daily, weekly or monthly call without an end date whatever   *)
(* the conflict queries return.  Without an end date the cap is the only   *)
(* exit of the loop, so such a call has left its loop before it has run    *)
(* twice the cap's iterations.                                             *)
(***************************************************************************)
C30_BatchCapVariantTerminates ==
    (NoEndDate /\ request.repeatType \in {"daily", "weekly", "monthly"} /\ pc = "loop")
        => Len(log) < MaxVariantIterations

\* With no failing query the cap on the batch does end the loop of a call
\* without an end date, within the iterations the model follows.
VariantEndsWhenQueriesReturn ==
    (NoEndDate /\ failing = {} /\ pc = "loop") => Len(log) < MaxVariantIterations

====
